---- MODULE Spec2Model ----
(***************************************************************************)
(* A model of kube-images.py: the image-reference parser, the per-context  *)
(* scan (pagination, extraction, per-namespace de-duplication, sorting)    *)
(* and the parallel scan of many contexts.                                 *)
(*                                                                         *)
(* Python strings are sequences of code points (Naturals), so that regex   *)
(* character classes, str.lower() and the code-point order used by         *)
(* sorted() are computed, not assumed.  An Optional[str] is <<>> for None  *)
(* and <<s>> for the string s.                                             *)
(***************************************************************************)
EXTENDS Integers, Sequences, FiniteSets, TLC

\* ------------------------------------------------------------------------
\* Python values
\* ------------------------------------------------------------------------

\* None, as the value of an Optional[...]
None == <<>>

\* A present Optional value
Some(v) == <<v>>

\* Python truthiness of an Optional[str] or Optional[list]: None, "" and []
\* are all falsy
Truthy(opt) == opt # <<>> /\ opt[1] # <<>>

\* `opt or ""`
OrEmpty(opt) == IF Truthy(opt) THEN opt[1] ELSE <<>>

\* ------------------------------------------------------------------------
\* Character classes of the regular expressions (code points)
\* ------------------------------------------------------------------------

IsLetter(c) == c \in 65..90 \/ c \in 97..122

IsDigit(c) == c \in 48..57

IsAlnum(c) == IsLetter(c) \/ IsDigit(c)

\* [a-zA-Z0-9+.\-]
IsSchemeChar(c) == IsAlnum(c) \/ c \in {43, 46, 45}

\* [A-Za-z0-9_+.\-]
IsAlgoChar(c) == IsAlnum(c) \/ c \in {95, 43, 46, 45}

\* [A-Fa-f0-9]
IsHexChar(c) == IsDigit(c) \/ c \in 65..70 \/ c \in 97..102

\* what str.strip() removes (ASCII)
IsSpace(c) == c \in 9..13 \/ c \in 28..32

\* {32,128} in _DIGEST_RE and _AT_DIGEST_RE
MinHexLen == 32

MaxHexLen == 128

\* The end (exclusive) of the longest run of scheme characters that starts
\* at position i of s: what the greedy [a-zA-Z0-9+.\-]* consumes from i.
SchemeRunEnd(s, i) ==
    CHOOSE j \in i..(Len(s) + 1) :
        /\ \A k \in i..(j - 1) : IsSchemeChar(s[k])
        /\ (j = Len(s) + 1 \/ ~IsSchemeChar(s[j]))

\* The same for [A-Za-z0-9_+.\-]
AlgoRunEnd(s, i) ==
    CHOOSE j \in i..(Len(s) + 1) :
        /\ \A k \in i..(j - 1) : IsAlgoChar(s[k])
        /\ (j = Len(s) + 1 \/ ~IsAlgoChar(s[j]))

\* The same for [A-Fa-f0-9]
HexRunEnd(s, i) ==
    CHOOSE j \in i..(Len(s) + 1) :
        /\ \A k \in i..(j - 1) : IsHexChar(s[k])
        /\ (j = Len(s) + 1 \/ ~IsHexChar(s[j]))

\* The first position >= 1 of s holding a character of the set cs, or
\* Len(s) + 1 when there is none
FirstOf(s, cs) ==
    IF \E k \in 1..Len(s) : s[k] \in cs
    THEN CHOOSE k \in 1..Len(s) : s[k] \in cs /\ \A m \in 1..(k - 1) : s[m] \notin cs
    ELSE Len(s) + 1

\* The last position of s holding the character c, or 0
LastOf(s, c) ==
    IF \E k \in 1..Len(s) : s[k] = c
    THEN CHOOSE k \in 1..Len(s) : s[k] = c /\ \A m \in (k + 1)..Len(s) : s[m] # c
    ELSE 0

Min(a, b) == IF a <= b THEN a ELSE b

\* ------------------------------------------------------------------------
\* ImageReferenceParser
\* ------------------------------------------------------------------------

\* _SCHEME_RE = ^[a-zA-Z][a-zA-Z0-9+.\-]*://  : the length of its match at
\* the start of s, 0 when it does not match.  ':' is outside the class, so
\* the greedy run decides the match.
\* "://" follows the scheme run that ends before position j
SchemeEnds(s, j) ==
    IF j + 2 <= Len(s) /\ s[j] = 58 /\ s[j + 1] = 47 /\ s[j + 2] = 47
    THEN j + 2
    ELSE 0

\* The length of what _SCHEME_RE matches at the start of s, 0 for no match
SchemeLen(s) ==
    IF s # <<>> /\ IsLetter(s[1]) THEN SchemeEnds(s, SchemeRunEnd(s, 2)) ELSE 0

strip_scheme(s) == IF s = <<>> THEN s ELSE SubSeq(s, SchemeLen(s) + 1, Len(s))

\* str.strip()
Strip(s) ==
    IF \A k \in 1..Len(s) : IsSpace(s[k])
    THEN <<>>
    ELSE LET a == CHOOSE k \in 1..Len(s) :
                      ~IsSpace(s[k]) /\ \A m \in 1..(k - 1) : IsSpace(s[m])
             b == CHOOSE k \in 1..Len(s) :
                      ~IsSpace(s[k]) /\ \A m \in (k + 1)..Len(s) : IsSpace(s[m])
         IN  SubSeq(s, a, b)

\* s[:FirstOf(s, {c})]: s.split(c, 1)[0]
Before(s, cs) == SubSeq(s, 1, FirstOf(s, cs) - 1)

\* lines 97-106, s stripped of blanks and scheme
ValidStripped(s) ==
    IF s = <<>> THEN FALSE
    ELSE IF s[1] = 58 \/ s[1] = 64 THEN FALSE
    ELSE \E k \in 1..(FirstOf(s, {64, 58}) - 1) : IsAlnum(s[k])

\* is_valid_image_ref(image), image an Optional[str]
is_valid_image_ref(image) == ValidStripped(strip_scheme(Strip(OrEmpty(image))))

\* ':' and at least MinHexLen hex characters follow the algorithm run that
\* ends before position j
ColonAndHex(s, j) ==
    /\ j <= Len(s)
    /\ s[j] = 58
    /\ HexRunEnd(s, j + 1) - (j + 1) >= MinHexLen

\* _DIGEST_RE matches at position i of s: an algorithm run, ':', and at
\* least MinHexLen hex characters
DigestAt(s, i) == IsAlgoChar(s[i]) /\ ColonAndHex(s, AlgoRunEnd(s, i))

\* The match at i whose algorithm run ends before j: the hex group greedy
\* up to MaxHexLen
MatchText(s, i, j) ==
    SubSeq(s, i, j + Min(HexRunEnd(s, j + 1) - (j + 1), MaxHexLen))

\* The leftmost position where _DIGEST_RE matches
FirstDigestAt(s) ==
    CHOOSE k \in 1..Len(s) : DigestAt(s, k) /\ \A m \in 1..(k - 1) : ~DigestAt(s, m)

MatchAt(s, i) == MatchText(s, i, AlgoRunEnd(s, i))

\* _DIGEST_RE.search(s): <<>> or <<"algo:hex">> of the leftmost match
DigestSearch(s) ==
    IF \E i \in 1..Len(s) : DigestAt(s, i)
    THEN Some(MatchAt(s, FirstDigestAt(s)))
    ELSE None

\* _AT_DIGEST_RE.search(s) is not None
HasAtDigest(s) ==
    \E i \in 1..(Len(s) - 1) : s[i] = 64 /\ DigestAt(s, i + 1)

\* extract_digest(*candidates): candidates a sequence of Optional[str]
RECURSIVE extract_digest(_)
extract_digest(candidates) ==
    IF candidates = <<>> THEN None
    ELSE IF ~Truthy(Head(candidates)) THEN extract_digest(Tail(candidates))
    ELSE IF DigestSearch(Head(candidates)[1]) # None
         THEN DigestSearch(Head(candidates)[1])
         ELSE extract_digest(Tail(candidates))

\* "unknown"
Unknown == <<117, 110, 107, 110, 111, 119, 110>>

\* s.rsplit("/", 1)[-1]
AfterLastSlash(s) == SubSeq(s, LastOf(s, 47) + 1, Len(s))

\* tail or "unknown"
OrUnknown(tail) == IF tail = <<>> THEN Unknown ELSE tail

\* short_name(image_ref)
short_name(image_ref) ==
    IF image_ref = <<>> THEN Unknown
    ELSE OrUnknown(Before(Before(AfterLastSlash(strip_scheme(image_ref)), {64}), {58}))

\* lines 147-151, image stripped of its scheme
Composed(normalized, digest) ==
    IF HasAtDigest(normalized) THEN normalized
    ELSE IF Truthy(digest) THEN normalized \o <<64>> \o digest[1]
    ELSE normalized

\* compose_reference(image, digest): image and digest are Optional[str]
compose_reference(image, digest) == Composed(strip_scheme(OrEmpty(image)), digest)

\* str.lower() on ASCII
Lower(s) == [k \in 1..Len(s) |-> IF s[k] \in 65..90 THEN s[k] + 32 ELSE s[k]]

\* uniqueness_key(ref, digest)
uniqueness_key(ref, digest) == Lower(IF Truthy(digest) THEN digest[1] ELSE ref)

\* ContainerImage(ref, name, digest)
ContainerImage(ref, name, digest) == [ref |-> ref, name |-> name, digest |-> digest]

\* name = short_name(ref or image); ContainerImage(ref=ref, name=name, digest=digest)
NamedImage(image, ref, digest) ==
    ContainerImage(ref, short_name(IF ref # <<>> THEN ref ELSE image), digest)

\* ref = compose_reference(image, digest) and what follows
ComposedImage(image, digest) ==
    NamedImage(image, compose_reference(Some(image), digest), digest)

\* digest = extract_digest(image_id, image) and what follows
StatusImageOf(image, image_id) ==
    ComposedImage(image, extract_digest(<<Some(image_id), Some(image)>>))

\* One iteration of from_statuses over a valid entry
StatusImage(status) ==
    StatusImageOf(strip_scheme(OrEmpty(status.image)),
                  strip_scheme(OrEmpty(status.imageID)))

\* status.get(...) on an entry that is not a dict raises AttributeError
EntriesRaise(entries) ==
    entries # None /\ \E k \in 1..Len(entries[1]) : entries[1][k].pytype # "dict"

\* Mutant: no entry is skipped
ValidEntries_KeepsAll(entries) == entries

\* The entries the loop does not skip
ValidEntries(entries) ==
    SelectSeq(entries, LAMBDA e : is_valid_image_ref(Some(strip_scheme(OrEmpty(e.image)))))

StatusImages(valid) == [k \in 1..Len(valid) |-> StatusImage(valid[k])]

\* from_statuses(statuses): statuses is None or Some(list of entries); the
\* value returned when no entry raises
from_statuses(statuses) ==
    IF statuses = None THEN <<>> ELSE StatusImages(ValidEntries(statuses[1]))

\* digest = extract_digest(image) and what follows
SpecImageOf(image) == ComposedImage(image, extract_digest(<<Some(image)>>))

\* One iteration of from_container_specs over a valid entry
SpecImage(container) == SpecImageOf(strip_scheme(OrEmpty(container.image)))

SpecImages(valid) == [k \in 1..Len(valid) |-> SpecImage(valid[k])]

\* from_container_specs(containers)
from_container_specs(containers) ==
    IF containers = None THEN <<>> ELSE SpecImages(ValidEntries(containers[1]))

\* ------------------------------------------------------------------------
\* Python dicts: a sequence of <<key, value>> pairs in insertion order
\* ------------------------------------------------------------------------

DictKeys(d) == {d[k][1] : k \in 1..Len(d)}

DictHas(d, key) == \E k \in 1..Len(d) : d[k][1] = key

DictGet(d, key) == d[CHOOSE k \in 1..Len(d) : d[k][1] = key][2]

\* d[key] = value: an existing key keeps its place
DictSet(d, key, value) ==
    IF DictHas(d, key)
    THEN [k \in 1..Len(d) |-> IF d[k][1] = key THEN <<key, value>> ELSE d[k]]
    ELSE Append(d, <<key, value>>)

\* d.setdefault(key, value), for its effect on d
DictSetDefault(d, key, value) ==
    IF DictHas(d, key) THEN d ELSE Append(d, <<key, value>>)

\* list(d.values())
DictValues(d) == [k \in 1..Len(d) |-> d[k][2]]

\* ------------------------------------------------------------------------
\* scan_single_context: the per-pod loop and the final sort
\* ------------------------------------------------------------------------

CONTAINER_STATUS_KEYS ==
    <<"containerStatuses", "initContainerStatuses", "ephemeralContainerStatuses">>

\* (pod.get("metadata", {}) or {}).get("namespace") or "default"
PodNamespace(pod) ==
    IF pod.metadata = None THEN "default"
    ELSE IF pod.metadata[1].namespace = None THEN "default"
    ELSE IF pod.metadata[1].namespace[1] = "" THEN "default"
    ELSE pod.metadata[1].namespace[1]

\* status_section.get(key), status_section = (pod.get("status", {}) or {})
StatusGet(pod, key) == IF pod.status = None THEN None ELSE pod.status[1][key]

\* (pod.get("spec", {}) or {}).get("containers", [])
SpecContainers(pod) == IF pod.spec = None THEN Some(<<>>) ELSE pod.spec[1].containers

\* The statement that raises while `collected` is built, if any
PodRaises(pod) ==
    \/ \E k \in 1..Len(CONTAINER_STATUS_KEYS) :
           EntriesRaise(StatusGet(pod, CONTAINER_STATUS_KEYS[k]))
    \/ /\ \A k \in 1..Len(CONTAINER_STATUS_KEYS) :
              from_statuses(StatusGet(pod, CONTAINER_STATUS_KEYS[k])) = <<>>
       /\ EntriesRaise(SpecContainers(pod))

\* `collected` of one pod: the status images of the three keys in order,
\* and the spec images when there is none
RECURSIVE StatusCollected(_, _)
StatusCollected(pod, k) ==
    IF k > Len(CONTAINER_STATUS_KEYS) THEN <<>>
    ELSE from_statuses(StatusGet(pod, CONTAINER_STATUS_KEYS[k]))
             \o StatusCollected(pod, k + 1)

\* Mutant: the declared containers are always added, per container
OrSpecImages_Merges(collected, pod) ==
    collected \o from_container_specs(SpecContainers(pod))

\* lines 346-348: if not collected, the declared containers are used
OrSpecImages(collected, pod) ==
    IF collected = <<>> THEN from_container_specs(SpecContainers(pod)) ELSE collected

Collected(pod) == OrSpecImages(StatusCollected(pod, 1), pod)

\* Mutant: ns_bucket[ukey] = image, the last image seen wins
RECURSIVE FoldImages_LastWins(_, _)
FoldImages_LastWins(ns_bucket, collected) ==
    IF collected = <<>> THEN ns_bucket
    ELSE LET image == Head(collected)
             ukey == uniqueness_key(image.ref, image.digest)
         IN  FoldImages_LastWins(DictSet(ns_bucket, ukey, image), Tail(collected))

\* for image in collected: ns_bucket.setdefault(ukey, image)
RECURSIVE FoldImages(_, _)
FoldImages(ns_bucket, collected) ==
    IF collected = <<>> THEN ns_bucket
    ELSE LET image == Head(collected)
             ukey == uniqueness_key(image.ref, image.digest)
         IN  FoldImages(DictSetDefault(ns_bucket, ukey, image), Tail(collected))

\* Python's < on str: code-point lexicographic order
RECURSIVE StrLess(_, _)
StrLess(a, b) ==
    IF b = <<>> THEN FALSE
    ELSE IF a = <<>> THEN TRUE
    ELSE IF Head(a) # Head(b) THEN Head(a) < Head(b)
    ELSE StrLess(Tail(a), Tail(b))

\* (x.name, x.ref) < (y.name, y.ref)
SortKeyLess(x, y) ==
    \/ StrLess(x.name, y.name)
    \/ x.name = y.name /\ StrLess(x.ref, y.ref)

\* Mutant: list(image_map.values()), the sort forgotten
SortedImages_Unsorted(images) == images

\* sorted(images, key=lambda x: (x.name, x.ref)): stable
RECURSIVE SortedImages(_)
SortedImages(images) ==
    IF images = <<>> THEN <<>>
    ELSE LET rest == SortedImages(SubSeq(images, 1, Len(images) - 1))
             x == images[Len(images)]
             \* x goes after every element that is not greater than it
             n == Cardinality({k \in 1..Len(rest) : ~SortKeyLess(x, rest[k])})
         IN  SubSeq(rest, 1, n) \o <<x>> \o SubSeq(rest, n + 1, Len(rest))

\* Mutant: a namespace without image is left out of the result
BuildResult_SkipsEmpty(images_by_namespace) ==
    SelectSeq([k \in 1..Len(images_by_namespace) |->
                  <<images_by_namespace[k][1],
                    SortedImages(DictValues(images_by_namespace[k][2]))>>],
              LAMBDA entry : entry[2] # <<>>)

\* The result dict built from images_by_namespace (lines 356-362)
BuildResult(images_by_namespace) ==
    [k \in 1..Len(images_by_namespace) |->
        <<images_by_namespace[k][1],
          SortedImages(DictValues(images_by_namespace[k][2]))>>]

\* The whole loop over pods, as the code runs it on a list of pod records
\* none of which raises
RECURSIVE FoldPods(_, _)
FoldPods(images_by_namespace, pods) ==
    IF pods = <<>> THEN images_by_namespace
    ELSE LET pod == Head(pods)
             namespace == PodNamespace(pod)
             withNs == DictSetDefault(images_by_namespace, namespace, <<>>)
             bucket == FoldImages(DictGet(withNs, namespace), Collected(pod))
         IN  FoldPods(DictSet(withNs, namespace, bucket), Tail(pods))

\* ------------------------------------------------------------------------
\* The inputs: image strings as container runtimes report them, and the pod
\* records (as ApiClient.sanitize_for_serialization returns them) built
\* from them
\* ------------------------------------------------------------------------

\* "nginx:1.25"
NginxTag ==
    <<110, 103, 105, 110, 120, 58, 49, 46, 50, 53>>

\* "nginx:latest"
NginxLatest ==
    <<110, 103, 105, 110, 120, 58, 108, 97, 116, 101, 115, 116>>

\* "docker-pullable://nginx@sha256:aaaaaaaaaaaaaaaaaaaaaaaaaaaaaaaa"
NginxId ==
    <<100, 111, 99, 107, 101, 114, 45, 112, 117, 108, 108, 97, 98, 108, 101, 58, 47, 47, 110, 103, 105, 110, 120, 64, 115, 104, 97, 50, 53, 54, 58, 97, 97, 97, 97, 97, 97, 97, 97, 97, 97, 97, 97, 97, 97, 97, 97, 97, 97, 97, 97, 97, 97, 97, 97, 97, 97, 97, 97, 97, 97, 97, 97>>

\* "sha256:aaaaaaaaaaaaaaaaaaaaaaaaaaaaaaaa"
DigestA ==
    <<115, 104, 97, 50, 53, 54, 58, 97, 97, 97, 97, 97, 97, 97, 97, 97, 97, 97, 97, 97, 97, 97, 97, 97, 97, 97, 97, 97, 97, 97, 97, 97, 97, 97, 97, 97, 97, 97, 97>>

\* "sha256:AAAAAAAAAAAAAAAAAAAAAAAAAAAAAAAA"
DigestAUpper ==
    <<115, 104, 97, 50, 53, 54, 58, 65, 65, 65, 65, 65, 65, 65, 65, 65, 65, 65, 65, 65, 65, 65, 65, 65, 65, 65, 65, 65, 65, 65, 65, 65, 65, 65, 65, 65, 65, 65, 65>>

\* "docker://busybox"
DockerBusybox ==
    <<100, 111, 99, 107, 101, 114, 58, 47, 47, 98, 117, 115, 121, 98, 111, 120>>

\* "Busybox"
BusyboxCaps ==
    <<66, 117, 115, 121, 98, 111, 120>>

\* ":v1.2.3"
TagOnly ==
    <<58, 118, 49, 46, 50, 46, 51>>

\* "app@sha256:bbbbbbbbbbbbbbbbbbbbbbbbbbbbbbbb"
AppAtB ==
    <<97, 112, 112, 64, 115, 104, 97, 50, 53, 54, 58, 98, 98, 98, 98, 98, 98, 98, 98, 98, 98, 98, 98, 98, 98, 98, 98, 98, 98, 98, 98, 98, 98, 98, 98, 98, 98, 98, 98, 98, 98, 98, 98>>

\* "registry.local:5000/ns/app:2"
RegistryApp ==
    <<114, 101, 103, 105, 115, 116, 114, 121, 46, 108, 111, 99, 97, 108, 58, 53, 48, 48, 48, 47, 110, 115, 47, 97, 112, 112, 58, 50>>

\* "redis@sha256:bbbbbbbbbbbbbbbbbbbbbbbbbbbbbbbb"
RedisAtB ==
    <<114, 101, 100, 105, 115, 64, 115, 104, 97, 50, 53, 54, 58, 98, 98, 98, 98, 98, 98, 98, 98, 98, 98, 98, 98, 98, 98, 98, 98, 98, 98, 98, 98, 98, 98, 98, 98, 98, 98, 98, 98, 98, 98, 98, 98>>

\* "@sha256:aaaaaaaaaaaaaaaaaaaaaaaaaaaaaaaa"
AtOnly ==
    <<64, 115, 104, 97, 50, 53, 54, 58, 97, 97, 97, 97, 97, 97, 97, 97, 97, 97, 97, 97, 97, 97, 97, 97, 97, 97, 97, 97, 97, 97, 97, 97, 97, 97, 97, 97, 97, 97, 97, 97>>

\* "docker://nginx:1.25"
DockerNginxTag ==
    <<100, 111, 99, 107, 101, 114, 58, 47, 47, 110, 103, 105, 110, 120, 58, 49, 46, 50, 53>>

\* ""
Empty ==
    <<>>

\* "docker://cri-o://app"
DoubleScheme ==
    <<100, 111, 99, 107, 101, 114, 58, 47, 47, 99, 114, 105, 45, 111, 58, 47, 47, 97, 112, 112>>

\* "sha256:bbbbbbbbbbbbbbbbbbbbbbbbbbbbbbbb"
DigestB ==
    <<115, 104, 97, 50, 53, 54, 58, 98, 98, 98, 98, 98, 98, 98, 98, 98, 98, 98, 98, 98, 98, 98, 98, 98, 98, 98, 98, 98, 98, 98, 98, 98, 98, 98, 98, 98, 98, 98, 98>>

\* " nginx:1.25 "
Padded ==
    <<32, 110, 103, 105, 110, 120, 58, 49, 46, 50, 53, 32>>

Pod1 ==
    [metadata |-> Some([namespace |-> None]),
     status |-> Some([containerStatuses |-> Some(<<[pytype |-> "dict", image |-> Some(NginxTag), imageID |-> Some(NginxId)], [pytype |-> "dict", image |-> Some(DockerBusybox), imageID |-> None]>>),
            initContainerStatuses |-> None,
            ephemeralContainerStatuses |-> None]),
     spec |-> Some([containers |-> Some(<<[pytype |-> "dict", image |-> Some(NginxTag)]>>)])]

Pod2 ==
    [metadata |-> Some([namespace |-> Some("kube-system")]),
     status |-> Some([containerStatuses |-> Some(<<[pytype |-> "dict", image |-> Some(NginxLatest), imageID |-> Some(DigestA)]>>),
            initContainerStatuses |-> Some(<<[pytype |-> "dict", image |-> Some(BusyboxCaps), imageID |-> None]>>),
            ephemeralContainerStatuses |-> Some(<<[pytype |-> "dict", image |-> Some(NginxTag), imageID |-> Some(DigestAUpper)]>>)]),
     spec |-> Some([containers |-> Some(<<[pytype |-> "dict", image |-> Some(RedisAtB)]>>)])]

Pod3 ==
    [metadata |-> Some([namespace |-> Some("default")]),
     status |-> Some([containerStatuses |-> Some(<<>>),
            initContainerStatuses |-> None,
            ephemeralContainerStatuses |-> None]),
     spec |-> Some([containers |-> Some(<<[pytype |-> "dict", image |-> Some(NginxTag)], [pytype |-> "dict", image |-> Some(AtOnly)]>>)])]

Pod4 ==
    [metadata |-> Some([namespace |-> Some("")]),
     status |-> Some([containerStatuses |-> Some(<<[pytype |-> "dict", image |-> Some(TagOnly), imageID |-> None], [pytype |-> "dict", image |-> None, imageID |-> None]>>),
            initContainerStatuses |-> None,
            ephemeralContainerStatuses |-> None]),
     spec |-> Some([containers |-> Some(<<[pytype |-> "dict", image |-> Some(DockerNginxTag)], [pytype |-> "dict", image |-> Some(RedisAtB)]>>)])]

Pod5 ==
    [metadata |-> Some([namespace |-> Some("kube-system")]),
     status |-> Some([containerStatuses |-> Some(<<[pytype |-> "dict", image |-> Some(AppAtB), imageID |-> Some(DigestA)], [pytype |-> "dict", image |-> Some(RegistryApp), imageID |-> Some(Empty)]>>),
            initContainerStatuses |-> Some(<<[pytype |-> "dict", image |-> Some(DockerBusybox), imageID |-> None]>>),
            ephemeralContainerStatuses |-> None]),
     spec |-> None]

Pod6 ==
    [metadata |-> Some([namespace |-> Some("prod")]),
     status |-> Some([containerStatuses |-> None,
            initContainerStatuses |-> None,
            ephemeralContainerStatuses |-> None]),
     spec |-> None]

Pod7 ==
    [metadata |-> Some([namespace |-> Some("default")]),
     status |-> Some([containerStatuses |-> Some(<<[pytype |-> "dict", image |-> Some(NginxTag), imageID |-> Some(NginxId)], [pytype |-> "str", image |-> None, imageID |-> None]>>),
            initContainerStatuses |-> None,
            ephemeralContainerStatuses |-> None]),
     spec |-> None]

\* The pod records the remote source can return, by pod id
Pods == <<Pod1, Pod2, Pod3, Pod4, Pod5, Pod6, Pod7>>


\* ------------------------------------------------------------------------
\* The remote source and the caller's arguments
\* ------------------------------------------------------------------------

\* Bounds of the model
MaxTargets == 2

MaxWorkers == 2

MaxRequests == 4

\* Context names; "__errors__" is the key the returned dict reserves
TargetIds == {"a", "b", "__errors__"}

\* Opaque continuation tokens handed out by the source
TokenNames == {"T1", "T2"}

\* Truthiness of continue_token, an Optional[str] whose strings are opaque
TokenTruthy(tok) == tok # None /\ tok[1] # ""

\* What _continue can be: None on the first request, then a non-empty token
Cursors == {None} \cup {Some(t) : t \in TokenNames}

\* What a response's metadata.continue can be: absent, "" or a token
Continues == {None, Some("")} \cup {Some(t) : t \in TokenNames}

\* No exception
NoExc == [cls |-> "None", text |-> ""]

\* kubernetes.client.exceptions.ApiException, e.g. an authorization error
ApiExc == [cls |-> "ApiException", text |-> "(403) Forbidden"]

\* A transport failure that is not an ApiException
TransportExc == [cls |-> "MaxRetryError", text |-> "connection refused"]

\* What config.new_client_from_config raises for an unusable context
ConfigExc == [cls |-> "ConfigException", text |-> "invalid kube-config"]

\* What status.get raises on an entry that is not a dict
AttrExc == [cls |-> "AttributeError", text |-> "'str' object has no attribute 'get'"]

\* One answer of list_pod_for_all_namespaces: it raises, or returns a page
\* of pods (by pod id) and a continue token
Page(items, cont) == [raises |-> NoExc, items |-> items, continue |-> cont]

Raise(exc) == [raises |-> exc, items |-> <<>>, continue |-> None]

\* The pages a source can hold (pod ids of Pods)
PageItems == {<<>>, <<1, 2>>, <<3, 5>>, <<4>>, <<6, 1>>, <<7>>}

Responses ==
    {Page(items, cont) : items \in PageItems, cont \in Continues}
        \cup {Raise(ApiExc), Raise(TransportExc)}

\* A remote source answers a request by its cursor
Sources == [Cursors -> Responses]

\* The behaviour of one context: whether a client can be built for it, and
\* its source
Env(client_exc, source) == [client_exc |-> client_exc, source |-> source]

\* A source given by its answers to None, "T1" and "T2"
Source(r0, r1, r2) ==
    [c \in Cursors |-> IF c = None THEN r0 ELSE IF c = Some("T1") THEN r1 ELSE r2]

Gone == Raise([cls |-> "ApiException", text |-> "(410) Gone"])

\* The contexts of the many-context runs
SrcOnePage == Source(Page(<<4>>, None), Gone, Gone)

SrcTwoPages == Source(Page(<<1>>, Some("T1")), Page(<<5>>, Some("")), Gone)

SrcForbidden == Source(Raise(ApiExc), Gone, Gone)

SrcDrops == Source(Page(<<1>>, Some("T1")), Raise(TransportExc), Gone)

SrcBadPod == Source(Page(<<7>>, None), Gone, Gone)

\* A source that hands back the token it was given
SrcEcho == Source(Page(<<4>>, Some("T1")), Page(<<>>, Some("T1")), Gone)

ManyEnvs ==
    {Env(NoExc, SrcOnePage), Env(NoExc, SrcTwoPages), Env(NoExc, SrcForbidden),
     Env(NoExc, SrcDrops), Env(NoExc, SrcBadPod), Env(NoExc, SrcEcho),
     Env(ConfigExc, SrcOnePage)}

\* The contexts of the one-context runs: every source
OneEnvs == {Env(NoExc, src) : src \in Sources} \cup {Env(ConfigExc, SrcOnePage)}

\* max_workers: None or an int
WorkerArgs == {None} \cup {Some(n) : n \in (-1)..MaxWorkers}

NameLists == UNION {[1..n -> TargetIds] : n \in 0..MaxTargets}

\* ------------------------------------------------------------------------
\* State
\* ------------------------------------------------------------------------

VARIABLES
    names,          \* list(context_names)
    max_workers,    \* the argument max_workers
    env,            \* per submitted scan, the behaviour of its context
    pc,             \* scan_multiple_contexts: "start", "collecting", "returned", "raised"
    worker_count,   \* worker_count (0 before it is computed)
    task,           \* per entry of names, the scan_single_context call submitted for it
    results,        \* results, as the as_completed loop builds it (lines 292-303)
    errors,         \* errors
    ret,            \* the returned dict: None until the call returns
    raised,         \* the exception that left scan_multiple_contexts, or NoExc
    call            \* one call of compose_reference, applied again to its own result

vars == <<names, max_workers, env, pc, worker_count, task, results, errors, ret, raised, call>>

inputs == <<names, max_workers, env>>

\* min(32, len(names))
DefaultWorkerCap == 32

\* A submitted, not yet started scan_single_context call and its locals
NewTask(name) ==
    [name |-> name,
     phase |-> "NotStarted",
     exc |-> NoExc,
     continue_token |-> None,
     requests |-> <<>>,
     items |-> <<>>,
     pod_index |-> 1,
     collected |-> <<>>,
     images_by_namespace |-> <<>>,
     result |-> None,
     yielded |-> FALSE]

\* The locals of a call that an exception has left
Unwound(t, exc) ==
    [t EXCEPT !.phase = "Failed", !.exc = exc, !.items = <<>>, !.collected = <<>>,
              !.images_by_namespace = <<>>]

\* No call of the parser under way
NoCall == [step |-> "idle", image |-> None, digest |-> None, ref |-> <<>>, again |-> <<>>]

InitWith(lists, workers, envs) ==
    /\ names \in lists
    /\ max_workers \in workers
    /\ env \in [1..Len(names) -> envs]
    /\ pc = "start"
    /\ worker_count = 0
    /\ task = <<>>
    /\ results = <<>>
    /\ errors = <<>>
    /\ ret = None
    /\ raised = NoExc
    /\ call = NoCall

Init == InitWith(NameLists, WorkerArgs, ManyEnvs)

\* One context at a time, against every source
ScanInit == InitWith({<<>>, <<"a">>}, {None, Some(0)}, OneEnvs)

\* ------------------------------------------------------------------------
\* scan_multiple_contexts
\* ------------------------------------------------------------------------

\* scan_multiple_contexts without the early return of lines 270-272: the pool
\* is created for an empty list of names
Call_Empty_NoEarlyReturn ==
    /\ pc = "start"
    /\ names = <<>>
    /\ IF max_workers # None /\ max_workers[1] > 0
       THEN pc' = "returned" /\ ret' = Some(<<>>) /\ raised' = raised
       ELSE /\ pc' = "raised"
            /\ raised' = [cls |-> "ValueError", text |-> "max_workers must be greater than 0"]
            /\ ret' = ret
    /\ UNCHANGED <<inputs, call, worker_count, task, results, errors>>

\* lines 270-272: no names
Call_Empty ==
    /\ pc = "start"
    /\ names = <<>>
    /\ pc' = "returned"
    /\ ret' = Some(<<>>)
    /\ UNCHANGED <<inputs, call, worker_count, task, results, errors, raised>>

\* max_workers if max_workers is not None else min(32, len(names))
WorkerCount == IF max_workers # None THEN max_workers[1] ELSE Min(DefaultWorkerCap, Len(names))

\* A pool that takes a limit below 1 as 1 and runs the scans
Call_BadWorkers_Clamps ==
    /\ pc = "start"
    /\ names # <<>>
    /\ WorkerCount <= 0
    /\ worker_count' = 1
    /\ task' = [i \in 1..Len(names) |-> NewTask(names[i])]
    /\ pc' = "collecting"
    /\ UNCHANGED <<inputs, call, results, errors, ret, raised>>

\* lines 275-281: ThreadPoolExecutor(max_workers=n) raises ValueError for n <= 0
Call_BadWorkers ==
    /\ pc = "start"
    /\ names # <<>>
    /\ WorkerCount <= 0
    /\ worker_count' = WorkerCount
    /\ pc' = "raised"
    /\ raised' = [cls |-> "ValueError", text |-> "max_workers must be greater than 0"]
    /\ UNCHANGED <<inputs, call, task, results, errors, ret>>

\* lines 275-290: the pool is created and one call is submitted per name
Call_Submit ==
    /\ pc = "start"
    /\ names # <<>>
    /\ WorkerCount > 0
    /\ worker_count' = WorkerCount
    /\ task' = [i \in 1..Len(names) |-> NewTask(names[i])]
    /\ results' = <<>>
    /\ errors' = <<>>
    /\ pc' = "collecting"
    /\ UNCHANGED <<inputs, call, ret, raised>>

Running(t) == t.phase \in {"Listing", "Extracting", "Aggregating"}

Finished(t) == t.phase \in {"Done", "Failed"}

NumRunning == Cardinality({i \in 1..Len(task) : Running(task[i])})

\* Mutant: a thread per work item, whatever max_workers says
CanStart_Unbounded(i) ==
    /\ pc = "collecting"
    /\ i \in 1..Len(task)
    /\ task[i].phase = "NotStarted"
    /\ \A j \in 1..(i - 1) : task[j].phase # "NotStarted"

\* A worker thread of the pool is free to take the next work item, and the
\* work queue is first in, first out
CanStart(i) ==
    /\ pc = "collecting"
    /\ i \in 1..Len(task)
    /\ task[i].phase = "NotStarted"
    /\ \A j \in 1..(i - 1) : task[j].phase # "NotStarted"
    /\ NumRunning < worker_count

\* line 321: the call starts and builds its client
StartTask_Client(i) ==
    /\ CanStart(i)
    /\ env[i].client_exc = NoExc
    /\ task' = [task EXCEPT ![i].phase = "Listing"]
    /\ UNCHANGED <<inputs, call, pc, worker_count, results, errors, ret, raised>>

\* line 321: new_core_v1 raises
StartTask_ClientRaises(i) ==
    /\ CanStart(i)
    /\ env[i].client_exc # NoExc
    /\ task' = [task EXCEPT ![i] = Unwound(@, env[i].client_exc)]
    /\ UNCHANGED <<inputs, call, pc, worker_count, results, errors, ret, raised>>

\* The request the pagination loop is about to send
CanList(i) ==
    /\ i \in 1..Len(task)
    /\ task[i].phase = "Listing"
    /\ Len(task[i].requests) < MaxRequests

Response(i) == env[i].source[task[i].continue_token]

\* Mutant: the exception is swallowed and the pages fetched so far returned
ListPage_Raises_KeepsPartial(i) ==
    /\ CanList(i)
    /\ Response(i).raises # NoExc
    /\ task' = [task EXCEPT ![i].requests = Append(@, task[i].continue_token),
                            ![i].phase = "Extracting"]
    /\ UNCHANGED <<inputs, call, pc, worker_count, results, errors, ret, raised>>

\* lines 381-386: the request raises
ListPage_Raises(i) ==
    /\ CanList(i)
    /\ Response(i).raises # NoExc
    /\ task' = [task EXCEPT ![i] =
           Unwound([@ EXCEPT !.requests = Append(@, task[i].continue_token)],
                   Response(i).raises)]
    /\ UNCHANGED <<inputs, call, pc, worker_count, results, errors, ret, raised>>

\* Mutant: extraction starts on the first page while a continue token is held
ListPage_More_ExtractsEarly(i) ==
    /\ CanList(i)
    /\ Response(i).raises = NoExc
    /\ TokenTruthy(Response(i).continue)
    /\ task' = [task EXCEPT ![i].requests = Append(@, task[i].continue_token),
                            ![i].items = @ \o Response(i).items,
                            ![i].continue_token = Response(i).continue,
                            ![i].phase = "Extracting"]
    /\ UNCHANGED <<inputs, call, pc, worker_count, results, errors, ret, raised>>

\* lines 381-394: a page with a continue token; the loop goes on
ListPage_More(i) ==
    /\ CanList(i)
    /\ Response(i).raises = NoExc
    /\ TokenTruthy(Response(i).continue)
    /\ task' = [task EXCEPT ![i].requests = Append(@, task[i].continue_token),
                            ![i].items = @ \o Response(i).items,
                            ![i].continue_token = Response(i).continue]
    /\ UNCHANGED <<inputs, call, pc, worker_count, results, errors, ret, raised>>

\* Mutant: the loop breaks before the last page's items are added
ListPage_Last_DropsPage(i) ==
    /\ CanList(i)
    /\ Response(i).raises = NoExc
    /\ ~TokenTruthy(Response(i).continue)
    /\ task' = [task EXCEPT ![i].requests = Append(@, task[i].continue_token),
                            ![i].continue_token = Response(i).continue,
                            ![i].phase = "Extracting"]
    /\ UNCHANGED <<inputs, call, pc, worker_count, results, errors, ret, raised>>

\* lines 381-396 and 330-334: a page without a continue token; the loop
\* breaks and the pods are handed to the extraction loop
ListPage_Last(i) ==
    /\ CanList(i)
    /\ Response(i).raises = NoExc
    /\ ~TokenTruthy(Response(i).continue)
    /\ task' = [task EXCEPT ![i].requests = Append(@, task[i].continue_token),
                            ![i].items = @ \o Response(i).items,
                            ![i].continue_token = Response(i).continue,
                            ![i].phase = "Extracting"]
    /\ UNCHANGED <<inputs, call, pc, worker_count, results, errors, ret, raised>>

CanExtract(i) ==
    /\ i \in 1..Len(task)
    /\ task[i].phase = "Extracting"
    /\ task[i].pod_index <= Len(task[i].items)

\* What lines 337-348 compute for a pod: its namespace, whether collecting
\* its images raises, and `collected`
PodFact(pod, raises) ==
    [namespace |-> PodNamespace(pod),
     raises |-> raises,
     collected |-> IF raises THEN <<>> ELSE Collected(pod)]

\* ... for each pod record of Pods
PodFacts == [p \in 1..Len(Pods) |-> PodFact(Pods[p], PodRaises(Pods[p]))]

CurrentPod(i) == PodFacts[task[i].items[task[i].pod_index]]

\* lines 337-348 for the pod whose facts are fact
Extracted(t, fact) ==
    [t EXCEPT !.images_by_namespace = DictSetDefault(@, fact.namespace, <<>>),
              !.collected = fact.collected,
              !.phase = "Aggregating"]

PodDoesRaise(fact) == fact.raises

\* lines 337-348: the namespace bucket is created and the pod's images are
\* collected
ExtractPod(i) ==
    /\ CanExtract(i)
    /\ ~PodDoesRaise(CurrentPod(i))
    /\ task' = [task EXCEPT ![i] = Extracted(@, CurrentPod(i))]
    /\ UNCHANGED <<inputs, call, pc, worker_count, results, errors, ret, raised>>

\* lines 337-348: an entry that is not a dict
ExtractPod_Raises(i) ==
    /\ CanExtract(i)
    /\ PodDoesRaise(CurrentPod(i))
    /\ task' = [task EXCEPT ![i] = Unwound(@, AttrExc)]
    /\ UNCHANGED <<inputs, call, pc, worker_count, results, errors, ret, raised>>

\* lines 350-353 for the namespace of the current pod
Aggregated(t, namespace) ==
    [t EXCEPT !.images_by_namespace =
                  DictSet(@, namespace,
                          FoldImages(DictGet(t.images_by_namespace, namespace), t.collected)),
              !.collected = <<>>,
              !.pod_index = @ + 1,
              !.phase = "Extracting"]

\* lines 350-353: the collected images go into the namespace bucket
AggregatePod(i) ==
    /\ i \in 1..Len(task)
    /\ task[i].phase = "Aggregating"
    /\ task' = [task EXCEPT ![i] = Aggregated(@, CurrentPod(i).namespace)]
    /\ UNCHANGED <<inputs, call, pc, worker_count, results, errors, ret, raised>>

\* lines 355-362: every namespace sorted; the call returns its result
Finalize(i) ==
    /\ i \in 1..Len(task)
    /\ task[i].phase = "Extracting"
    /\ task[i].pod_index > Len(task[i].items)
    /\ task' = [task EXCEPT ![i].result = Some(BuildResult(task[i].images_by_namespace)),
                            ![i].images_by_namespace = <<>>,
                            ![i].items = <<>>,
                            ![i].phase = "Done"]
    /\ UNCHANGED <<inputs, call, pc, worker_count, results, errors, ret, raised>>

\* as_completed yields a finished future once
CanCollect(i) ==
    /\ pc = "collecting"
    /\ i \in 1..Len(task)
    /\ Finished(task[i])
    /\ ~task[i].yielded

\* f"Kubernetes API error: {exc}"
ApiErrorMessage(exc) == <<"Kubernetes API error: ", exc.text>>

\* f"Unexpected error: {exc.__class__.__name__}: {exc}"
UnexpectedErrorMessage(exc) == <<"Unexpected error: ", exc.cls, ": ", exc.text>>

\* line 295: results[name] = future.result()
Collect_Result(i) ==
    /\ CanCollect(i)
    /\ task[i].phase = "Done"
    /\ results' = DictSet(results, task[i].name, task[i].result[1])
    /\ task' = [task EXCEPT ![i].yielded = TRUE]
    /\ UNCHANGED <<inputs, call, pc, worker_count, errors, ret, raised>>

\* Mutant: the first ApiException ends the as_completed loop
Collect_ApiException_StopsLoop(i) ==
    /\ CanCollect(i)
    /\ task[i].phase = "Failed"
    /\ task[i].exc.cls = "ApiException"
    /\ errors' = DictSet(errors, task[i].name, ApiErrorMessage(task[i].exc))
    /\ task' = [j \in 1..Len(task) |->
           IF Finished(task[j]) THEN [task[j] EXCEPT !.yielded = TRUE]
           ELSE [Unwound(task[j], [cls |-> "CancelledError", text |-> ""]) EXCEPT !.yielded = TRUE]]
    /\ UNCHANGED <<inputs, call, pc, worker_count, results, ret, raised>>

\* lines 296-299: except ApiException
Collect_ApiException(i) ==
    /\ CanCollect(i)
    /\ task[i].phase = "Failed"
    /\ task[i].exc.cls = "ApiException"
    /\ errors' = DictSet(errors, task[i].name, ApiErrorMessage(task[i].exc))
    /\ task' = [task EXCEPT ![i].yielded = TRUE]
    /\ UNCHANGED <<inputs, call, pc, worker_count, results, ret, raised>>

\* Mutant: the handler shuts the pool down, cancelling what has not finished
Collect_Exception_CancelsRest(i) ==
    /\ CanCollect(i)
    /\ task[i].phase = "Failed"
    /\ task[i].exc.cls # "ApiException"
    /\ errors' = DictSet(errors, task[i].name, UnexpectedErrorMessage(task[i].exc))
    /\ task' = [j \in 1..Len(task) |->
           IF j = i THEN [task[j] EXCEPT !.yielded = TRUE]
           ELSE IF Finished(task[j]) THEN task[j]
           ELSE Unwound(task[j], [cls |-> "CancelledError", text |-> ""])]
    /\ UNCHANGED <<inputs, call, pc, worker_count, results, ret, raised>>

\* lines 300-303: except Exception
Collect_Exception(i) ==
    /\ CanCollect(i)
    /\ task[i].phase = "Failed"
    /\ task[i].exc.cls # "ApiException"
    /\ errors' = DictSet(errors, task[i].name, UnexpectedErrorMessage(task[i].exc))
    /\ task' = [task EXCEPT ![i].yielded = TRUE]
    /\ UNCHANGED <<inputs, call, pc, worker_count, results, ret, raised>>

\* Mutant: the loop is left after the first future
Return_AfterFirst ==
    /\ pc = "collecting"
    /\ \E i \in 1..Len(task) : task[i].yielded
    /\ ret' = Some(IF errors # <<>> THEN DictSet(results, "__errors__", errors) ELSE results)
    /\ pc' = "returned"
    /\ UNCHANGED <<inputs, call, worker_count, task, results, errors, raised>>

\* lines 305-308: the pool is shut down, errors are merged, the dict returned
Return ==
    /\ pc = "collecting"
    /\ \A i \in 1..Len(task) : task[i].yielded
    /\ ret' = Some(IF errors # <<>> THEN DictSet(results, "__errors__", errors) ELSE results)
    /\ pc' = "returned"
    /\ UNCHANGED <<inputs, call, worker_count, task, results, errors, raised>>

Next ==
    \/ Call_Empty
    \/ Call_BadWorkers
    \/ Call_Submit
    \/ \E i \in 1..Len(task) : StartTask_Client(i)
    \/ \E i \in 1..Len(task) : StartTask_ClientRaises(i)
    \/ \E i \in 1..Len(task) : ListPage_Raises(i)
    \/ \E i \in 1..Len(task) : ListPage_More(i)
    \/ \E i \in 1..Len(task) : ListPage_Last(i)
    \/ \E i \in 1..Len(task) : ExtractPod(i)
    \/ \E i \in 1..Len(task) : ExtractPod_Raises(i)
    \/ \E i \in 1..Len(task) : AggregatePod(i)
    \/ \E i \in 1..Len(task) : Finalize(i)
    \/ \E i \in 1..Len(task) : Collect_Result(i)
    \/ \E i \in 1..Len(task) : Collect_ApiException(i)
    \/ \E i \in 1..Len(task) : Collect_Exception(i)
    \/ Return

\* Many contexts, each with one of a few behaviours
Spec == Init /\ [][Next]_vars

\* One context, against every source
ScanSpec == ScanInit /\ [][Next]_vars

\* The pool's threads and the calling thread keep running
FairSpec == Spec /\ WF_vars(Next)

\* ---------------------------------------------------------------------
\* ImageReferenceParser.compose_reference called on its own

\* The image arguments: None and every string of the catalogue
ImageArgs ==
    {None} \cup {Some(x) : x \in {NginxTag, NginxLatest, NginxId, DockerBusybox, BusyboxCaps,
                                   TagOnly, AppAtB, RegistryApp, RedisAtB, AtOnly,
                                   DockerNginxTag, Empty, DoubleScheme, Padded, DigestA}}

\* The digest arguments: None, the empty string and digests _DIGEST_RE matches
DigestArgs == {None} \cup {Some(x) : x \in {Empty, DigestA, DigestB, DigestAUpper}}

ParserInit ==
    /\ names = <<>>
    /\ max_workers = None
    /\ env = <<>>
    /\ pc = "start"
    /\ worker_count = 0
    /\ task = <<>>
    /\ results = <<>>
    /\ errors = <<>>
    /\ ret = None
    /\ raised = NoExc
    /\ \E image \in ImageArgs, digest \in DigestArgs :
           call = [step |-> "args", image |-> image, digest |-> digest, ref |-> <<>>, again |-> <<>>]

\* ref = compose_reference(image, digest)
Parse_Compose ==
    /\ call.step = "args"
    /\ call' = [call EXCEPT !.step = "composed",
                            !.ref = compose_reference(call.image, call.digest)]
    /\ UNCHANGED <<inputs, pc, worker_count, task, results, errors, ret, raised>>

\* again = compose_reference(ref, digest)
Parse_ComposeAgain ==
    /\ call.step = "composed"
    /\ call' = [call EXCEPT !.step = "recomposed",
                            !.again = compose_reference(Some(call.ref), call.digest)]
    /\ UNCHANGED <<inputs, pc, worker_count, task, results, errors, ret, raised>>

ParserNext ==
    \/ Parse_Compose
    \/ Parse_ComposeAgain

ParserSpec == ParserInit /\ [][ParserNext]_vars

\* ------------------------------------------------------------------------
\* What one context's scan does on its own, read off its source
\* ------------------------------------------------------------------------

\* The answers the source gives when its tokens are followed from cursor,
\* up to the first that raises or carries no token, at most n of them
RECURSIVE Walk(_, _, _)
Walk(src, cursor, n) ==
    IF n = 0 THEN <<>>
    ELSE LET r == src[cursor]
         IN  IF r.raises # NoExc \/ ~TokenTruthy(r.continue) THEN <<r>>
             ELSE <<r>> \o Walk(src, r.continue, n - 1)

RECURSIVE ConcatItems(_)
ConcatItems(pages) ==
    IF pages = <<>> THEN <<>> ELSE Head(pages).items \o ConcatItems(Tail(pages))

\* The source ends its listing: some page carries no token, none raises
ListingEnds(src) ==
    LET w == Walk(src, None, MaxRequests)
    IN  w[Len(w)].raises = NoExc /\ ~TokenTruthy(w[Len(w)].continue)

ListedPods(src) == ConcatItems(Walk(src, None, MaxRequests))

\* scan_single_context on this context alone returns a result
ScansAlone(e) ==
    /\ e.client_exc = NoExc
    /\ ListingEnds(e.source)
    /\ \A k \in 1..Len(ListedPods(e.source)) : ~PodFacts[ListedPods(e.source)[k]].raises

\* ... and this is the result
AloneResult ==
    [e \in {x \in ManyEnvs : ScansAlone(x)} |->
        BuildResult(FoldPods(<<>>,
            [k \in 1..Len(ListedPods(e.source)) |-> Pods[ListedPods(e.source)[k]]]))]

\* ------------------------------------------------------------------------
\* Claims
\* ------------------------------------------------------------------------

Returned == pc = "returned" /\ names # <<>>

\* C1: when scan_multiple_contexts returns, every requested context name is a
\* key of exactly one of results and errors, and none is a key of both
\* (names need not be distinct).
C1_DisjointPartition ==
    Returned =>
        \A i \in 1..Len(names) :
            DictHas(results, names[i]) # DictHas(errors, names[i])

\* Every scan of a context behaves the same, and succeeds on its own
SteadyAndSound(i) ==
    /\ ScansAlone(env[i])
    /\ \A j \in 1..Len(names) : names[j] = names[i] => env[j] = env[i]

\* C2 (state part): at the return, every context whose own scan succeeds has,
\* whatever the other contexts did, the result of scanning it alone
C2_OthersComplete ==
    Returned =>
        \A i \in 1..Len(names) :
            SteadyAndSound(i) =>
                /\ task[i].phase = "Done"
                /\ DictHas(results, names[i])
                /\ DictGet(results, names[i]) = AloneResult[env[i]]

\* C2 (step part): the step in which one scan fails, and the step that
\* records a failure, leave every other scan and every recorded result as
\* they are
C2_FailureTouchesNothingElse ==
    \A i \in 1..Len(task) :
        (\/ task[i].phase # "Failed" /\ task'[i].phase = "Failed"
         \/ task[i].phase = "Failed" /\ ~task[i].yielded /\ task'[i].yielded)
            => /\ \A j \in 1..Len(task) : j # i => task'[j] = task[j]
               /\ results' = results

ExpectedMessage(exc) ==
    IF exc.cls = "ApiException" THEN <<"Kubernetes API error: ", exc.text>>
    ELSE <<"Unexpected error: ", exc.cls, ": ", exc.text>>

\* C3: every failure raised inside a context's scan is, at the return,
\* recorded in errors under that context's name, as a Kubernetes API error
\* for an ApiException and as an Unexpected error for any other; none leaves
\* scan_multiple_contexts and none is dropped.
C3_EveryFailureRecorded ==
    /\ pc = "raised" => \A i \in 1..Len(task) : task[i].exc = NoExc
    /\ Returned =>
           \A i \in 1..Len(names) :
               task[i].phase = "Failed" =>
                   /\ DictHas(errors, names[i])
                   /\ DictGet(errors, names[i]) = ExpectedMessage(task[i].exc)

AllFinished == pc = "collecting" /\ \A i \in 1..Len(task) : Finished(task[i])

\* C4 (state part): at the return no scan is still running and every scan's
\* entry is in the maps
C4_NothingRunningAtReturn ==
    Returned =>
        \A i \in 1..Len(names) :
            /\ Finished(task[i])
            /\ task[i].yielded
            /\ task[i].phase = "Done" =>
                   DictHas(results, names[i]) /\ DictHas(ret[1], names[i])
            /\ task[i].phase = "Failed" =>
                   /\ DictHas(errors, names[i])
                   /\ DictHas(ret[1], "__errors__")
                   /\ DictHas(DictGet(ret[1], "__errors__"), names[i])

\* C4: scan_multiple_contexts returns only after every submitted scan is Done
\* or Failed, with every entry in the maps; and once every scan has ended
\* it does return.
C4_ReturnsAfterAll ==
    [](C4_NothingRunningAtReturn) /\ (AllFinished ~> pc = "returned")

\* Returned with both a result and an error, the scans having overlapped
C4_Witness ==
    /\ Returned
    /\ worker_count > 1
    /\ \E i, j \in 1..Len(names) : task[i].phase = "Done" /\ task[j].phase = "Failed"

\* C5: never more scans in progress than the concurrency limit, the limit
\* being min(32, number of names) when max_workers is None, and exactly one
\* scan is submitted per entry of names.
C5_BoundedConcurrency ==
    (pc = "collecting" \/ Returned) =>
        /\ NumRunning <= worker_count
        /\ worker_count =
               IF max_workers = None
               THEN (IF Len(names) < 32 THEN Len(names) ELSE 32)
               ELSE max_workers[1]
        /\ Len(task) = Len(names)
        /\ \A i \in 1..Len(names) : task[i].name = names[i]

\* The limit binds: a scan waits because every worker is busy
C5_Witness ==
    /\ pc = "collecting"
    /\ NumRunning = worker_count
    /\ \E i \in 1..Len(task) : task[i].phase = "NotStarted"

\* The k-th request of scan i raised
RequestRaised(i, k) == env[i].source[task[i].requests[k]].raises # NoExc

\* C6 (state part): a request that raised is the last one the scan sent, the
\* scan has failed with that exception, and nothing of the pages fetched
\* before it is left
C6_FailedPageFailsScan ==
    \A i \in 1..Len(task) :
        \A k \in 1..Len(task[i].requests) :
            RequestRaised(i, k) =>
                /\ k = Len(task[i].requests)
                /\ task[i].phase = "Failed"
                /\ task[i].exc = env[i].source[task[i].requests[k]].raises
                /\ task[i].items = <<>>
                /\ task[i].images_by_namespace = <<>>
                /\ task[i].result = None

\* C6 (step part): a failed scan sends no further request, stays failed,
\* and adds nothing to results
C6_FailedIsFinal ==
    \A i \in 1..Len(task) :
        task[i].phase = "Failed" =>
            /\ task'[i].phase = "Failed"
            /\ task'[i].requests = task[i].requests
            /\ task'[i].result = None
            /\ task'[i].yielded # task[i].yielded => results' = results

\* C6: scan_single_context never partially returns and never retries: when
\* a page request fails, the first or a later one, no further request is
\* sent, the items already fetched are dropped and the call fails without a
\* result.
C6_NoPartialNoRetry == [](C6_FailedPageFailsScan) /\ [][C6_FailedIsFinal]_vars

\* A later page failed after a page with pods had been fetched
C6_Witness ==
    \E i \in 1..Len(task) :
        /\ Len(task[i].requests) = 2
        /\ RequestRaised(i, 2)
        /\ env[i].source[None].items # <<>>
        /\ task[i].phase = "Failed"
        /\ task[i].yielded

\* The pagination loop has returned and its items are not yet consumed
ListingReturned(t) == t.phase \in {"Extracting", "Aggregating"}

\* C7: against a source of k pages of which only the last carries no (or an
\* empty) token, the pagination loop sends exactly k requests, the first
\* without a cursor and each later one with the token of the answer before,
\* stops at the first answer without a token, and returns the items of the
\* k pages in page order, none lost and none twice.
C7_PaginatedLister ==
    \A i \in 1..Len(task) :
        LET req == task[i].requests
            pages == Walk(env[i].source, None, MaxRequests)
            k == Len(pages)
        IN  /\ ListingReturned(task[i]) =>
                /\ ListingEnds(env[i].source)
                /\ Len(req) = k
                /\ req[1] = None
                /\ \A j \in 1..(k - 1) :
                       TokenTruthy(pages[j].continue) /\ req[j + 1] = pages[j].continue
                /\ ~TokenTruthy(pages[k].continue)
                /\ task[i].items = ConcatItems(pages)
            /\ (task[i].phase = "Listing" /\ ListingEnds(env[i].source)) =>
                /\ Len(req) < k
                /\ \A j \in 1..Len(req) :
                       req[j] = IF j = 1 THEN None ELSE pages[j - 1].continue
                /\ task[i].items = ConcatItems(SubSeq(pages, 1, Len(req)))

\* Three pages of 2, 2 and 1 pods, the last with an empty token: 5 items
C7_Witness ==
    \E i \in 1..Len(task) :
        LET pages == Walk(env[i].source, None, MaxRequests)
        IN  /\ ListingReturned(task[i])
            /\ Len(task[i].requests) = 3
            /\ Len(pages[1].items) = 2 /\ Len(pages[2].items) = 2 /\ Len(pages[3].items) = 1
            /\ pages[3].continue = Some("")
            /\ Len(task[i].items) = 5

\* C8: the pagination loop stops when the source answers a request with the
\* very token the request carried: it does not send that token again (and
\* so does not loop forever).
C8_StopsOnEchoedToken ==
    \A i \in 1..Len(task) :
        \A k \in 1..(Len(task[i].requests) - 1) :
            task[i].requests[k + 1] # task[i].requests[k]

\* The identity key of the specification: the digest if present, else the
\* ref, lower-cased
IdentityKey(img) ==
    Lower(IF img.digest # None /\ img.digest[1] # <<>> THEN img.digest[1] ELSE img.ref)

\* (name, ref) of x is at most that of y, by code points
NameRefLeq(x, y) ==
    \/ StrLess(x.name, y.name)
    \/ x.name = y.name /\ (x.ref = y.ref \/ StrLess(x.ref, y.ref))

\* C9: in every result of scan_single_context each namespace's images have
\* pairwise different identity keys and are sorted ascending by (name, ref).
C9_UniqueAndSorted ==
    \A i \in 1..Len(task) :
        task[i].phase = "Done" =>
            \A n \in 1..Len(task[i].result[1]) :
                LET images == task[i].result[1][n][2]
                IN  /\ \A a, b \in 1..Len(images) :
                           a # b => IdentityKey(images[a]) # IdentityKey(images[b])
                    /\ \A a \in 1..(Len(images) - 1) : NameRefLeq(images[a], images[a + 1])

\* The images of one pod in input order: its regular, init and ephemeral
\* statuses in that order, its declared containers when those give none
PodInputImages ==
    [p \in DOMAIN Pods |->
        IF PodFacts[p].raises THEN <<>>
        ELSE LET status ==
                     from_statuses(StatusGet(Pods[p], "containerStatuses"))
                         \o from_statuses(StatusGet(Pods[p], "initContainerStatuses"))
                         \o from_statuses(StatusGet(Pods[p], "ephemeralContainerStatuses"))
             IN  IF status # <<>> THEN status
                 ELSE from_container_specs(SpecContainers(Pods[p]))]

\* The images of a namespace in input order, over the pods in list order
RECURSIVE InputImages(_, _)
InputImages(pods, namespace) ==
    IF pods = <<>> THEN <<>>
    ELSE (IF PodFacts[Head(pods)].namespace = namespace
          THEN PodInputImages[Head(pods)] ELSE <<>>)
             \o InputImages(Tail(pods), namespace)

HasKey(images, key) == \E k \in 1..Len(images) : IdentityKey(images[k]) = key

FirstWithKey(images, key) ==
    images[CHOOSE k \in 1..Len(images) :
               /\ IdentityKey(images[k]) = key
               /\ \A m \in 1..(k - 1) : IdentityKey(images[m]) # key]

\* C10: first seen wins: per namespace and identity key, the image in the
\* result is the first with that key in input order; later ones are dropped
\* and never replace it, whatever their ref.
C10_FirstSeenWins ==
    \A i \in 1..Len(task) :
        task[i].phase = "Done" =>
            \A n \in 1..Len(task[i].result[1]) :
                LET images == task[i].result[1][n][2]
                    input == InputImages(ListedPods(env[i].source), task[i].result[1][n][1])
                IN  /\ \A a \in 1..Len(images) :
                           /\ HasKey(input, IdentityKey(images[a]))
                           /\ images[a] = FirstWithKey(input, IdentityKey(images[a]))
                    /\ \A k \in 1..Len(input) : HasKey(images, IdentityKey(input[k]))

\* A later image with the key of an earlier one and another ref was dropped
DroppedLater(input) ==
    \E k \in 1..Len(input) :
        LET first == FirstWithKey(input, IdentityKey(input[k]))
        IN  first # input[k] /\ first.ref # input[k].ref

C10_Witness ==
    \E i \in 1..Len(task) :
        /\ task[i].phase = "Done"
        /\ \E n \in 1..Len(task[i].result[1]) :
               DroppedLater(InputImages(ListedPods(env[i].source), task[i].result[1][n][1]))

\* A namespace whose images arrived in another order than the sorted one,
\* one of them twice
C9_Witness ==
    \E i \in 1..Len(task) :
        /\ task[i].phase = "Done"
        /\ \E n \in 1..Len(task[i].result[1]) :
               LET images == task[i].result[1][n][2]
                   input == InputImages(ListedPods(env[i].source), task[i].result[1][n][1])
               IN  /\ Len(images) >= 2
                   /\ Len(input) > Len(images)
                   /\ input[1] # images[1]

\* The images the status entries of each pod yield: regular, init and
\* ephemeral together
StatusYield ==
    [p \in DOMAIN Pods |->
        IF PodFacts[p].raises THEN <<>>
        ELSE from_statuses(StatusGet(Pods[p], "containerStatuses"))
                 \o from_statuses(StatusGet(Pods[p], "initContainerStatuses"))
                 \o from_statuses(StatusGet(Pods[p], "ephemeralContainerStatuses"))]

\* The images the declared containers of each pod yield
SpecYield ==
    [p \in DOMAIN Pods |->
        IF PodFacts[p].raises THEN <<>> ELSE from_container_specs(SpecContainers(Pods[p]))]

\* The pod whose images scan i has just collected
CollectedPod(i) == task[i].items[task[i].pod_index]

\* C11: the fallback from statuses to declared containers is all or nothing
\* per pod: the declared containers contribute exactly when the statuses
\* yield no valid image; a pod with a valid status image contributes its
\* status images only, whatever else its declared containers hold.
C11_AllOrNothingFallback ==
    \A i \in 1..Len(task) :
        task[i].phase = "Aggregating" =>
            /\ StatusYield[CollectedPod(i)] # <<>> =>
                   task[i].collected = StatusYield[CollectedPod(i)]
            /\ StatusYield[CollectedPod(i)] = <<>> =>
                   task[i].collected = SpecYield[CollectedPod(i)]

\* A pod with a valid status image whose declared containers hold an image
\* that none of its status images is
C11_Witness ==
    \E i \in 1..Len(task) :
        /\ task[i].phase = "Aggregating"
        /\ StatusYield[CollectedPod(i)] # <<>>
        /\ \E k \in 1..Len(SpecYield[CollectedPod(i)]) :
               \A m \in 1..Len(task[i].collected) :
                   IdentityKey(task[i].collected[m])
                       # IdentityKey(SpecYield[CollectedPod(i)][k])


EndsWith(s, suffix) ==
    /\ Len(s) >= Len(suffix)
    /\ SubSeq(s, Len(s) - Len(suffix) + 1, Len(s)) = suffix

RefCarriesDigest(img) ==
    img.digest # None => EndsWith(img.ref, <<64>> \o img.digest[1])

\* C12: every image a workload yields whose digest is set has a ref that ends
\* with '@' followed by that digest, status entries whose image string embeds
\* one digest while the imageID carries another included.
C12_RefEndsWithDigest ==
    \A i \in 1..Len(task) :
        task[i].phase = "Aggregating" =>
            \A m \in 1..Len(task[i].collected) :
                RefCarriesDigest(task[i].collected[m])


\* d is a digest _DIGEST_RE matches from its first to its last character
WellFormedDigest(d) == d # None /\ DigestSearch(d[1]) = d

\* The places of s where '@' is followed by a digest
AtDigestPlaces(s) == {k \in 1..(Len(s) - 1) : s[k] = 64 /\ DigestAt(s, k + 1)}

\* C13: for every image is_valid_image_ref accepts, a transport-scheme prefix
\* included, and every well-formed digest d, composing the composed reference
\* with d again gives the composed reference, which holds at most one
\* '@<digest>'.
C13_ComposeIdempotent ==
    (/\ call.step = "recomposed"
     /\ is_valid_image_ref(call.image)
     /\ WellFormedDigest(call.digest))
        => /\ call.again = call.ref
           /\ Cardinality(AtDigestPlaces(call.ref)) <= 1


\* C14: called with no target, scan_multiple_contexts returns an empty mapping
\* and keeps its error collection empty; it raises nothing and creates no scan,
\* hence no client and no list request.
C14_NoTargetsNoWork ==
    names = <<>> =>
        /\ pc \in {"start", "returned"}
        /\ task = <<>>
        /\ results = <<>>
        /\ errors = <<>>
        /\ raised = NoExc
        /\ pc = "returned" => ret = Some(<<>>)

C14_Witness == names = <<>> /\ pc = "returned" /\ ret = Some(<<>>) /\ max_workers = None


BadLimit == names # <<>> /\ max_workers # None /\ max_workers[1] < 1

\* C15: called with at least one target and a concurrency limit below 1,
\* scan_multiple_contexts raises ValueError to its caller and returns nothing;
\* no scan is started, hence no client is built and no list request is sent.
C15_BadLimitIsCallerError ==
    BadLimit =>
        /\ pc \in {"start", "raised"}
        /\ task = <<>>
        /\ results = <<>>
        /\ errors = <<>>
        /\ ret = None
        /\ pc = "raised" <=> raised.cls = "ValueError"

C15_Witness == BadLimit /\ pc = "raised" /\ max_workers = Some(-1) /\ Len(names) = MaxTargets


DistinctNames == \A i, j \in 1..Len(names) : names[i] = names[j] => i = j

FailedIds == {names[i] : i \in {j \in 1..Len(task) : task[j].phase = "Failed"}}

\* The error map holds exactly the failed ids, each with the message of its scan
ErrorsOfFailed(map) ==
    /\ DictKeys(map) = FailedIds
    /\ \A i \in 1..Len(task) :
           task[i].phase = "Failed" => DictGet(map, names[i]) = ExpectedMessage(task[i].exc)

\* C16: the returned mapping has the key "__errors__" exactly when a target
\* failed, its value then maps exactly the failed ids to their messages, and
\* every other key is the id of a target that succeeded, mapped to its result;
\* stated for distinct target ids of any name.
C16_ErrorsKeyIffFailure ==
    (Returned /\ DistinctNames) =>
        /\ DictHas(ret[1], "__errors__") <=> FailedIds # {}
        /\ FailedIds # {} => ErrorsOfFailed(DictGet(ret[1], "__errors__"))
        /\ \A key \in DictKeys(ret[1]) \ {"__errors__"} :
               \E i \in 1..Len(task) :
                   /\ names[i] = key
                   /\ task[i].phase = "Done"
                   /\ DictGet(ret[1], key) = task[i].result[1]


\* The steps of one scan from phase p to phase q that the claimed order allows
\* when extraction and aggregation alternate workload by workload
PhaseStep(p, q) ==
    \/ p = q
    \/ p = "NotStarted" /\ q \in {"Listing", "Failed"}
    \/ p = "Listing" /\ q \in {"Extracting", "Failed"}
    \/ p = "Extracting" /\ q \in {"Aggregating", "Done", "Failed"}
    \/ p = "Aggregating" /\ q = "Extracting"

\* A scan past its listing has fetched the last page
ListedBeforeExtracting ==
    \A i \in 1..Len(task) :
        task[i].phase \in {"Extracting", "Aggregating"} =>
            /\ task[i].requests # <<>>
            /\ ~TokenTruthy(task[i].continue_token)

\* No list request is sent once the listing is over
NoRequestAfterListing(i) ==
    task[i].phase \notin {"NotStarted", "Listing"} => task'[i].requests = task[i].requests

\* A scan goes back to extraction, with a workload left to extract, after it
\* has aggregated one
ReEntersExtracting(i) ==
    /\ task[i].phase = "Aggregating"
    /\ task'[i].phase = "Extracting"
    /\ task'[i].pod_index <= Len(task'[i].items)

StartsWith(s, prefix) ==
    Len(s) >= Len(prefix) /\ SubSeq(s, 1, Len(prefix)) = prefix

ListOf(entries) == IF entries = None THEN <<>> ELSE entries[1]

\* The status entries of a pod, regular, init, ephemeral
StatusEntries(pod) ==
    ListOf(StatusGet(pod, "containerStatuses"))
        \o ListOf(StatusGet(pod, "initContainerStatuses"))
        \o ListOf(StatusGet(pod, "ephemeralContainerStatuses"))

\* The entries whose image string, as the source gave it, is accepted
Accepted(entries) ==
    SelectSeq(entries, LAMBDA e : e.pytype = "dict" /\ is_valid_image_ref(e.image))

HasMalformed(entries) ==
    \E k \in 1..Len(entries) : entries[k].pytype = "dict" /\ ~is_valid_image_ref(entries[k].image)

HasNonDict(pod) ==
    \E k \in 1..Len(StatusEntries(pod) \o ListOf(SpecContainers(pod))) :
        (StatusEntries(pod) \o ListOf(SpecContainers(pod)))[k].pytype # "dict"

\* Per pod, the entries its images are to be built from: the accepted status
\* entries, or the accepted declared containers when there is none
ImageSources ==
    [p \in DOMAIN Pods |->
        IF Accepted(StatusEntries(Pods[p])) # <<>>
        THEN Accepted(StatusEntries(Pods[p]))
        ELSE Accepted(ListOf(SpecContainers(Pods[p])))]

\* The ref of img starts with the image string of entry e, schemes removed
BuiltFrom(img, e) == StartsWith(img.ref, strip_scheme(strip_scheme(OrEmpty(e.image))))

\* The images collected from a pod are those of its accepted entries, one each
OnePerAccepted(i) ==
    /\ Len(task[i].collected) = Len(ImageSources[CollectedPod(i)])
    /\ \A k \in 1..Len(task[i].collected) :
           BuiltFrom(task[i].collected[k], ImageSources[CollectedPod(i)][k])

\* Every image of a result was built from an accepted entry of a listed pod
ResultFromAccepted(i) ==
    \A n \in 1..Len(task[i].result[1]) :
        \A m \in 1..Len(task[i].result[1][n][2]) :
            \E k \in 1..Len(ListedPods(env[i].source)) :
                \E e \in 1..Len(ImageSources[ListedPods(env[i].source)[k]]) :
                    BuiltFrom(task[i].result[1][n][2][m],
                              ImageSources[ListedPods(env[i].source)[k]][e])

\* A scan that fails while it extracts a pod fails on an entry that is no dict
FailsOnNonDictOnly(i) ==
    (task[i].phase = "Extracting" /\ task'[i].phase = "Failed")
        => HasNonDict(Pods[task[i].items[task[i].pod_index]])

\* C18: an image string is_valid_image_ref rejects, in a status entry or a
\* declared container, is skipped: it yields no image, it never makes the scan
\* fail, and every image of a result was built from a string that is accepted.
C18_MalformedSkipped ==
    /\ [](\A i \in 1..Len(task) :
              /\ task[i].phase = "Aggregating" => OnePerAccepted(i)
              /\ task[i].phase = "Done" => ResultFromAccepted(i))
    /\ [][\A i \in 1..Len(task) : FailsOnNonDictOnly(i)]_vars

\* A pod with a rejected image string among its entries has been extracted
C18_Witness ==
    \E i \in 1..Len(task) :
        /\ task[i].phase = "Aggregating"
        /\ HasMalformed(StatusEntries(Pods[CollectedPod(i)])
                            \o ListOf(SpecContainers(Pods[CollectedPod(i)])))
        /\ task[i].collected # <<>>


\* Every scan of the same context meets the same behaviour
FixedBehaviour == \A i, j \in 1..Len(names) : names[i] = names[j] => env[i] = env[j]

\* What the last request of the listing raises, NoExc if nothing
ListingRaises(src) ==
    Walk(src, None, MaxRequests)[Len(Walk(src, None, MaxRequests))].raises

\* The exception scan_single_context raises on a context it cannot scan: of
\* the client, else of the listing, else of the first entry that is no dict
AloneFailure ==
    [e \in {x \in ManyEnvs : ~ScansAlone(x)} |->
        IF e.client_exc # NoExc THEN e.client_exc
        ELSE IF ListingRaises(e.source) # NoExc THEN ListingRaises(e.source)
        ELSE AttrExc]

\* C19: for a fixed list of names and a fixed behaviour per context, the
\* success map and the error map at the return are, as mappings, functions of
\* the list and the behaviours alone: the same for every interleaving of the
\* scans and every order of completion.
C19_ScheduleIndependent ==
    (Returned /\ FixedBehaviour) =>
        /\ DictKeys(results) = {names[i] : i \in {j \in 1..Len(names) : ScansAlone(env[j])}}
        /\ DictKeys(errors) = {names[i] : i \in {j \in 1..Len(names) : ~ScansAlone(env[j])}}
        /\ \A i \in 1..Len(names) :
               IF ScansAlone(env[i])
               THEN DictGet(results, names[i]) = AloneResult[env[i]]
               ELSE DictGet(errors, names[i]) = ExpectedMessage(AloneFailure[env[i]])

\* Two scans were collected in the order opposite to that of the names
C19_Witness ==
    /\ Returned
    /\ FixedBehaviour
    /\ Len(names) = 2
    /\ names[1] # names[2]
    /\ \/ Len(results) = 2 /\ results[1][1] = names[2]
       \/ Len(errors) = 2 /\ errors[1][1] = names[2]


\* The namespace a workload record counts for
NamespaceOrDefault(pod) ==
    IF pod.metadata # None /\ pod.metadata[1].namespace \notin {None, Some("")}
    THEN pod.metadata[1].namespace[1]
    ELSE "default"

\* The listed workloads of scan i that count for namespace
WorkloadsOf(i, namespace) ==
    {p \in {ListedPods(env[i].source)[k] : k \in 1..Len(ListedPods(env[i].source))} :
        NamespaceOrDefault(Pods[p]) = namespace}

\* C20: the keys of a scan's result are exactly the namespaces of the listed
\* workloads, an absent or empty namespace counting as "default"; a namespace
\* whose workloads yield no image is a key all the same, mapped to the empty
\* sequence, and no namespace without a workload is a key.
C20_NamespaceCoverage ==
    \A i \in 1..Len(task) :
        task[i].phase = "Done" =>
            /\ DictKeys(task[i].result[1])
                   = {NamespaceOrDefault(Pods[ListedPods(env[i].source)[k]]) :
                          k \in 1..Len(ListedPods(env[i].source))}
            /\ \A namespace \in DictKeys(task[i].result[1]) :
                   /\ WorkloadsOf(i, namespace) # {}
                   /\ (\A p \in WorkloadsOf(i, namespace) : PodInputImages[p] = <<>>)
                          => DictGet(task[i].result[1], namespace) = <<>>

\* A result with a namespace that has no image, next to "default" standing
\* for a workload without namespace
C20_Witness ==
    \E i \in 1..Len(task) :
        /\ task[i].phase = "Done"
        /\ DictHas(task[i].result[1], "prod")
        /\ DictGet(task[i].result[1], "prod") = <<>>
        /\ DictHas(task[i].result[1], "default")
        /\ \E p \in WorkloadsOf(i, "default") : Pods[p].metadata[1].namespace = None

====
